---- MODULE Spec2Model ----
(***************************************************************************)
(* Wallet ledger of lendsqr-be-test: WalletService.fundWallet,             *)
(* withdrawFunds and transferFunds running as concurrent request handlers  *)
(* over the MySQL store reached through utils/schema.ts (fetchOne, update, *)
(* create) inside knex transactions (db.transaction).                      *)
(*                                                                         *)
(* Store semantics (InnoDB, default REPEATABLE READ, the level knex uses   *)
(* when db.transaction is given no isolationLevel):                        *)
(*   - a plain SELECT inside a transaction reads the snapshot taken at the *)
(*     transaction's first read, overlaid with the transaction's own       *)
(*     writes;                                                             *)
(*   - an UPDATE takes an exclusive lock on the row, held until commit or  *)
(*     rollback, and blocks while another transaction holds it;            *)
(*   - .first() without ORDER BY on a table keyed by UUID returns an       *)
(*     arbitrary one of the matching rows.                                 *)
(* Money is counted in minor units (integers).                             *)
(***************************************************************************)
EXTENDS Integers, Sequences, FiniteSets, TLC

\* ------------------------------------------------------------------ bounds
MaxProcs == 2      \* concurrent request handlers
MaxOps == 3        \* calls started in one behaviour
MaxAmount == 1     \* largest amount a caller passes

Procs == 1..MaxProcs

\* ------------------------------------------------------------ fixed data
NULL == "null"
NullRow == [id |-> NULL]
NoTxn == [id |-> 0]

\* e-mail addresses are sequences of characters
EmailA == <<"a", "@", "x">>
EmailB == <<"b", "@", "x">>
EmailBUpper == <<"B", "@", "X">>
EmailCUpper == <<"C", "@", "X">>
EmailNobody == <<"z", "@", "x">>

\* String.prototype.toLowerCase on one character
LowerChar(c) ==
  CASE c = "A" -> "a"
    [] c = "B" -> "b"
    [] c = "C" -> "c"
    [] c = "X" -> "x"
    [] c = "Z" -> "z"
    [] OTHER -> c

\* the e-mail looked up as the caller typed it
toLowerCaseSkipped(s) == s

toLowerCase(s) == [i \in 1..Len(s) |-> LowerChar(s[i])]

\* the users table after two registrations (registerUser stores the e-mail
\* in lower case); each has, through registerUser, one wallet
InitialUsers ==
  { [id |-> "u1", email |-> EmailA, phone |-> "p1", bvn |-> "b1"],
    [id |-> "u2", email |-> EmailB, phone |-> "p2", bvn |-> "b2"] }

\* ids a bearer token can carry: the registered users and "u0", an id that
\* has no wallet row
RegisteredIds == {"u1", "u2"}
\* e-mails a caller of transferFunds names: those of u1 and u2, the second
\* in upper case, one a registration may take, and one no user has
RecipientEmails == {EmailA, EmailBUpper, EmailCUpper, EmailNobody}

\* payload.reference: omitted, or one caller-chosen string
NoReference == [src |-> "none", n |-> 0]
CallerReference == [src |-> "caller", n |-> 1]
References == {NoReference, CallerReference}

\* payload.reference given as the empty string ""
EmptyReference == [src |-> "caller", n |-> 0]

\* the operand of ||: undefined and "" are falsy, every other string truthy
Truthy(reference) == reference.src # "none" /\ reference # EmptyReference

VARIABLES
  users,          \* committed rows of table users
  wallets,        \* committed rows of table wallets
  transactions,   \* committed rows of table transactions
  pc,             \* position of each request handler
  call,           \* the operation and payload each handler runs
  trx,            \* the knex transaction of each handler
  local,          \* the handler's local constants
  response,       \* the latest result a handler returned or threw
  started         \* number of calls started

vars ==
  <<users, wallets, transactions, pc, call, trx, local, response, started>>

\* ------------------------------------------------------- utils/schema.ts
Matches(row, filter) == \A f \in DOMAIN filter : row[f] = filter[f]

\* query.where(filter): the rows selected
Where(table, filter) == {r \in table : Matches(r, filter)}

\* .first(): the results the store may give, NullRow/NoTxn when none
First(rows, none) == IF rows = {} THEN {none} ELSE rows

\* fetchOne(tableName, filter, [], trx): possible results
fetchOne(table, filter, none) == First(Where(table, filter), none)

Merge(row, data) ==
  [f \in DOMAIN row |-> IF f \in DOMAIN data THEN data[f] ELSE row[f]]

\* query.where(filter).update(data)
update(table, filter, data) ==
  {IF Matches(r, filter) THEN Merge(r, data) ELSE r : r \in table}

\* create(tableName, data, trx) on table transactions: insert, then look the
\* row up again by the first unique field of TABLE_METADATA, reference
create(table, data) ==
  LET inserted == table \cup {data}
  IN  [table |-> inserted,
       found |-> First(Where(inserted, [reference |-> data.reference]), NoTxn)]

\* the handle the wallet update runs on, trx ? trx(tableName) :
\* db(tableName): the handlers pass trx
updateHandleDb == "db"
updateHandle == "trx"

\* ------------------------------------------------- knex transaction state
\* wallets/transactions: what a SELECT of the transaction sees; locked: the
\* wallet rows it updated; ins: the transaction rows it inserted; upd: the
\* transaction rows it updated, each with the columns it set
NoTrx ==
  [open |-> FALSE, wallets |-> {}, transactions |-> {},
   locked |-> {}, ins |-> {}, upd |-> {}]

\* db.transaction(async (trx) => ...) at its first read: the snapshot
BeginTrx == [NoTrx EXCEPT !.open = TRUE, !.wallets = wallets,
                          !.transactions = transactions]

Ids(rows) == {r.id : r \in rows}

\* rows locked by transactions other than p's
LockedByOthers(p) == UNION {trx[q].locked : q \in Procs \ {p}}

\* the callback returned: COMMIT
commitWallets(t) ==
  {IF r.id \in t.locked
     THEN CHOOSE v \in t.wallets : v.id = r.id
     ELSE r : r \in wallets}

\* an UPDATE writes the columns it sets into the row as committed, not
\* into the snapshot's version of it
commitTransactions(t) ==
  {IF r.id \in Ids(t.upd)
     THEN Merge(r, (CHOOSE u \in t.upd : u.id = r.id).data)
     ELSE r : r \in transactions}
  \cup {r \in t.transactions : r.id \in t.ins}

\* ---------------------------------------------------------- fresh values
AllTxnRows == transactions \cup UNION {trx[q].transactions : q \in Procs}

\* the id column defaults to UUID(): a value no row has yet
FreshIdAfter(rows) ==
  CHOOSE n \in 1..(Cardinality(rows) + 1) :
    /\ n \notin Ids(rows)
    /\ \A m \in 1..(n - 1) : m \in Ids(rows)

GenNumbers ==
  {r.reference.n : r \in {x \in AllTxnRows : x.reference.src = "gen"}}
  \cup {local[q].reference.n :
          q \in {x \in Procs : local[x].reference.src = "gen"}}

\* generateTransactionReference(): "TXN_" + Date.now() + "_" + 6 random
\* characters, a reference no row and no running call carries
generateTransactionReference ==
  [src |-> "gen",
   n |-> CHOOSE n \in 1..(Cardinality(GenNumbers) + 1) :
           /\ n \notin GenNumbers
           /\ \A m \in 1..(n - 1) : m \in GenNumbers]

\* the reference always generated, whatever the payload carries
referenceOfGenerated(payload) == generateTransactionReference

\* payload.reference || this.transactionService.generateTransactionReference()
referenceOf(payload) ==
  IF Truthy(payload.reference)
    THEN payload.reference
    ELSE generateTransactionReference

\* ----------------------------------------------------- TransactionService
\* createTransaction(payload, trx): the row handed to create(), with the
\* columns the payload leaves out set to null
transactionData(payload, id) ==
  [id |-> id,
   walletId |-> payload.walletId,
   userId |-> payload.userId,
   type |-> payload.type,
   amount |-> payload.amount,
   reference |-> payload.reference,
   senderId |-> IF "senderId" \in DOMAIN payload THEN payload.senderId ELSE NULL,
   receiverId |-> IF "receiverId" \in DOMAIN payload THEN payload.receiverId ELSE NULL,
   status |-> payload.status,
   balanceBefore |-> payload.balanceBefore,
   balanceAfter |-> payload.balanceAfter]

\* createTransaction(payload, trx): create("transactions", data, trx), then
\* getTransactionWithRelations(createdTransaction.id, trx).  Gives the
\* transaction's table after the insert and the rows that may be returned.
createTransaction(table, payload) ==
  create(table, transactionData(payload, FreshIdAfter(AllTxnRows \cup table)))

\* the rows of a table that an earlier table did not have
NewIds(before, after) == Ids(after) \ Ids(before)

\* the columns markTransactionSuccess sets: status, and balanceAfter when a
\* value is passed (knex leaves a column whose value is undefined out of
\* the UPDATE); the rows here carry no processedAt
markData(balanceAfter) ==
  IF balanceAfter = {}
    THEN [status |-> "SUCCESS"]
    ELSE [status |-> "SUCCESS",
          balanceAfter |-> CHOOSE v \in balanceAfter : TRUE]

\* markTransactionSuccess(transactionId, balanceAfter, trx); balanceAfter is
\* {} when undefined is passed, {v} otherwise
markTransactionSuccess(table, transactionId, balanceAfter) ==
  update(table, [id |-> transactionId], markData(balanceAfter))

\* markTransactionFailed(transactionId, failureReason, trx):
\* query(TRANSACTIONS_TABLE).where({ id }).update({ status: "FAILED",
\* failureReason, failedAt }); the rows here carry neither failureReason nor
\* failedAt
markTransactionFailed(table, transactionId) ==
  update(table, [id |-> transactionId], [status |-> "FAILED"])

\* markTransactionCancelled(transactionId, reason, trx)
markTransactionCancelled(table, transactionId) ==
  update(table, [id |-> transactionId], [status |-> "CANCELLED"])

\* ---------------------------------------------------------- WalletService
NoCall ==
  [op |-> "none", userId |-> NULL, amount |-> 0,
   reference |-> NoReference, recipientEmail |-> <<>>]

NoLocal ==
  [wallet |-> NullRow, recipient |-> NullRow, recipientWallet |-> NullRow,
   reference |-> NoReference, newBalance |-> 0, recipientNewBalance |-> 0,
   updatedWallet |-> NullRow, transaction |-> NoTxn,
   recipientTransaction |-> NoTxn, createdUser |-> NullRow]

\* what the caller sees of a returned transaction object: the row it is,
\* its wallet and owner, its status and balances
NoReturned ==
  [id |-> NoTxn.id, walletId |-> NULL, userId |-> NULL, status |-> "none",
   balanceBefore |-> 0, balanceAfter |-> 0]

Returned(transaction) ==
  IF transaction.id = NoTxn.id
    THEN NoReturned
    ELSE [id |-> transaction.id,
          walletId |-> transaction.walletId,
          userId |-> transaction.userId,
          status |-> transaction.status,
          balanceBefore |-> transaction.balanceBefore,
          balanceAfter |-> transaction.balanceAfter]

\* kind: "ok" or the error thrown; at: the position it was thrown at; op,
\* amount and recipientEmail: the call that ended; karma: what the
\* identity-verification collaborator would have answered for the e-mail of
\* a registration; transaction: the transaction returned
NoResponse ==
  [kind |-> "none", at |-> "none", op |-> "none", amount |-> 0,
   recipientEmail |-> <<>>, karma |-> "none", transaction |-> NoReturned]

Init ==
  /\ users = InitialUsers
  /\ wallets = { [id |-> "w1", user_id |-> "u1", balance |-> 0],
                 [id |-> "w2", user_id |-> "u2", balance |-> 0] }
  /\ transactions = {}
  /\ pc = [p \in Procs |-> "idle"]
  /\ call = [p \in Procs |-> NoCall]
  /\ trx = [p \in Procs |-> NoTrx]
  /\ local = [p \in Procs |-> NoLocal]
  /\ response = NoResponse
  /\ started = 0

\* a strict comparison in the amount check
invalidAmountStrict(amount) == amount < 0

\* if (payload.amount <= 0) throw new InvalidAmountError(...)
invalidAmount(amount) == amount <= 0

\* the funds check off by one, letting the balance go below zero
insufficientFundsLoose(balance, amount) == balance < amount - 1

\* the funds check rejecting a withdrawal of the whole balance
insufficientFundsStrict(balance, amount) == balance <= amount

\* if (Number(wallet.balance) < payload.amount) throw InsufficientFundsError
insufficientFunds(balance, amount) == balance < amount

\* the self-transfer check with the comparison inverted
isSelfTransferInverted(recipient, senderUserId) == recipient.id # senderUserId

\* if (recipient.id === senderUserId) throw new SelfTransferError()
isSelfTransfer(recipient, senderUserId) == recipient.id = senderUserId

\* the handler's call ends: its result goes to the caller and the handler
\* is free for the next request
Ends(p, c, kind, transaction) ==
  /\ response' = [kind |-> kind, at |-> pc[p], op |-> c.op,
                  amount |-> c.amount,
                  recipientEmail |-> c.recipientEmail,
                  karma |-> IF "karma" \in DOMAIN c THEN c.karma ELSE "none",
                  transaction |-> Returned(transaction)]
  /\ pc' = [pc EXCEPT ![p] = "idle"]
  /\ call' = [call EXCEPT ![p] = NoCall]
  /\ trx' = [trx EXCEPT ![p] = NoTrx]
  /\ local' = [local EXCEPT ![p] = NoLocal]

\* the classes of utils/errors: AppError and its subclasses
AppErrors ==
  {"AppError", "InvalidAmountError", "WalletNotFoundError",
   "InsufficientFundsError", "RecipientNotFoundError", "SelfTransferError",
   "ConflictError", "KarmaVerificationError"}

\* what the store's driver throws when a query fails: not an AppError
DriverError == "DriverError"

\* a catch clause that rethrows whatever it caught
CaughtRethrown(err) == err

\* catch (err) { if (err instanceof AppError) throw err;
\*               throw new AppError(`... error: ${getErrorMessage(err)}`) }
Caught(err) == IF err \in AppErrors THEN err ELSE "AppError"

\* a handler throws err at its current position: the transaction, if one is
\* open, is rolled back and what the catch clause throws reaches the caller
Throw(p, err) == Ends(p, call[p], Caught(err), NoTxn)

\* entry of a handler with its payload: the amount check before
\* db.transaction
Enter(p, c) ==
  /\ pc[p] = "idle"
  /\ started < MaxOps
  /\ started' = started + 1
  /\ UNCHANGED <<users, wallets, transactions>>
  /\ IF invalidAmount(c.amount)
       THEN Ends(p, c, Caught("InvalidAmountError"), NoTxn)
       ELSE /\ pc' = [pc EXCEPT ![p] = "fetch"]
            /\ call' = [call EXCEPT ![p] = c]
            /\ UNCHANGED <<trx, local, response>>

\* the payloads of one handler: every valid amount and reference for the
\* registered users, one payload with an amount that is not positive, one
\* of a caller without wallet and one with the empty string as reference
Payloads(op, emails) ==
  {[op |-> op, userId |-> u, amount |-> a, reference |-> ref,
    recipientEmail |-> e] :
      u \in RegisteredIds, a \in 1..MaxAmount, ref \in References,
      e \in emails}
  \cup {[op |-> op, userId |-> u, amount |-> 0, reference |-> NoReference,
         recipientEmail |-> e] : u \in {"u1"}, e \in emails}
  \cup {[op |-> op, userId |-> "u0", amount |-> MaxAmount,
         reference |-> NoReference, recipientEmail |-> e] : e \in emails}
  \cup {[op |-> op, userId |-> "u1", amount |-> MaxAmount,
         reference |-> EmptyReference, recipientEmail |-> e] : e \in emails}

fundWallet(p) == \E c \in Payloads("FUND", {<<>>}) : Enter(p, c)

withdrawFunds(p) == \E c \in Payloads("WITHDRAW", {<<>>}) : Enter(p, c)

transferFunds(p) == \E c \in Payloads("TRANSFER", RecipientEmails) : Enter(p, c)

\* update(WALLETS_TABLE, { user_id }, { balance }, trx): blocks while
\* another transaction holds the row; gives the transaction after the write
\* and the row read back
WalletUpdate(p, userId, balance) ==
  LET t == trx[p]
      rows == update(t.wallets, [user_id |-> userId], [balance |-> balance])
  IN  [trx |-> [t EXCEPT !.wallets = rows,
                         !.locked = IF updateHandle = "trx"
                                      THEN @ \cup Ids(Where(wallets, [user_id |-> userId]))
                                      ELSE @],
       committed |-> IF updateHandle = "trx"
                       THEN wallets
                       ELSE update(wallets, [user_id |-> userId],
                                   [balance |-> balance]),
       updated |-> First(Where(rows, [user_id |-> userId]), NullRow)]

CanLock(p, userId) ==
  Ids(Where(wallets, [user_id |-> userId])) \cap LockedByOthers(p) = {}

\* ------------------------------------------------------------ fundWallet
fundFetch(p) ==
  /\ pc[p] = "fetch" /\ call[p].op = "FUND"
  /\ UNCHANGED <<users, wallets, transactions, started>>
  /\ LET t == BeginTrx
     IN \E wallet \in fetchOne(t.wallets, [user_id |-> call[p].userId], NullRow) :
          IF wallet.id = NULL
            THEN Throw(p, "WalletNotFoundError")
            ELSE /\ trx' = [trx EXCEPT ![p] = t]
                 /\ local' = [local EXCEPT ![p] =
                      [NoLocal EXCEPT !.wallet = wallet,
                                      !.reference = referenceOf(call[p])]]
                 /\ pc' = [pc EXCEPT ![p] = "update"]
                 /\ UNCHANGED <<call, response>>

fundUpdate(p) ==
  /\ pc[p] = "update" /\ call[p].op = "FUND"
  /\ CanLock(p, call[p].userId)
  /\ LET newBalance == local[p].wallet.balance + call[p].amount
         w == WalletUpdate(p, call[p].userId, newBalance)
     IN \E updatedWallet \in w.updated :
          /\ trx' = [trx EXCEPT ![p] = w.trx]
          /\ wallets' = w.committed
          /\ local' = [local EXCEPT ![p].newBalance = newBalance,
                                    ![p].updatedWallet = updatedWallet]
  /\ pc' = [pc EXCEPT ![p] = "record"]
  /\ UNCHANGED <<users, transactions, call, response, started>>

\* the record of a fund or a withdrawal written without its wallet
ownPayloadWithoutWallet(c, l) ==
  [walletId |-> NULL,
   userId |-> c.userId,
   type |-> c.op,
   amount |-> c.amount,
   reference |-> l.reference,
   status |-> "PENDING",
   balanceBefore |-> l.wallet.balance,
   balanceAfter |-> l.newBalance]

\* the transaction record of a fund or a withdrawal
ownPayload(c, l) ==
  [walletId |-> l.wallet.id,
   userId |-> c.userId,
   type |-> c.op,
   amount |-> c.amount,
   reference |-> l.reference,
   status |-> "PENDING",
   balanceBefore |-> l.wallet.balance,
   balanceAfter |-> l.newBalance]

\* the record step passing the balance read as balanceAfter
RecordOwnPassingBalanceRead(p) ==
  LET made == createTransaction(trx[p].transactions,
                                ownPayload(call[p], local[p]))
  IN \E transaction \in made.found :
       LET marked == markTransactionSuccess(made.table, transaction.id,
                                            {local[p].wallet.balance})
           t == [trx[p] EXCEPT
                   !.transactions = marked,
                   !.ins = NewIds(trx[p].transactions, made.table),
                   !.upd = {[id |-> transaction.id,
                             data |-> markData({local[p].wallet.balance})]}]
       IN /\ wallets' = commitWallets(t)
          /\ transactions' = commitTransactions(t)
          /\ Ends(p, call[p], "ok", transaction)
          /\ UNCHANGED <<users, started>>

\* createTransaction, markTransactionSuccess(transaction.id, undefined, trx)
\* and the return of the callback, on which knex commits
RecordOwn(p) ==
  LET made == createTransaction(trx[p].transactions,
                                ownPayload(call[p], local[p]))
  IN \E transaction \in made.found :
       LET marked == markTransactionSuccess(made.table, transaction.id, {})
           t == [trx[p] EXCEPT
                   !.transactions = marked,
                   !.ins = NewIds(trx[p].transactions, made.table),
                   !.upd = {[id |-> transaction.id, data |-> markData({})]}]
       IN /\ wallets' = commitWallets(t)
          /\ transactions' = commitTransactions(t)
          /\ Ends(p, call[p], "ok", transaction)
          /\ UNCHANGED <<users, started>>

fundRecord(p) == pc[p] = "record" /\ call[p].op = "FUND" /\ RecordOwn(p)

\* --------------------------------------------------------- withdrawFunds
withdrawFetch(p) ==
  /\ pc[p] = "fetch" /\ call[p].op = "WITHDRAW"
  /\ UNCHANGED <<users, wallets, transactions, started>>
  /\ LET t == BeginTrx
     IN \E wallet \in fetchOne(t.wallets, [user_id |-> call[p].userId], NullRow) :
          IF wallet.id = NULL
            THEN Throw(p, "WalletNotFoundError")
            ELSE IF insufficientFunds(wallet.balance, call[p].amount)
              THEN Throw(p, "InsufficientFundsError")
              ELSE /\ trx' = [trx EXCEPT ![p] = t]
                   /\ local' = [local EXCEPT ![p] =
                        [NoLocal EXCEPT !.wallet = wallet,
                                        !.reference = referenceOf(call[p])]]
                   /\ pc' = [pc EXCEPT ![p] = "update"]
                   /\ UNCHANGED <<call, response>>

withdrawUpdate(p) ==
  /\ pc[p] = "update" /\ call[p].op = "WITHDRAW"
  /\ CanLock(p, call[p].userId)
  /\ LET newBalance == local[p].wallet.balance - call[p].amount
         w == WalletUpdate(p, call[p].userId, newBalance)
     IN \E updatedWallet \in w.updated :
          /\ trx' = [trx EXCEPT ![p] = w.trx]
          /\ wallets' = w.committed
          /\ local' = [local EXCEPT ![p].newBalance = newBalance,
                                    ![p].updatedWallet = updatedWallet]
  /\ pc' = [pc EXCEPT ![p] = "record"]
  /\ UNCHANGED <<users, transactions, call, response, started>>

withdrawRecord(p) == pc[p] = "record" /\ call[p].op = "WITHDRAW" /\ RecordOwn(p)

\* --------------------------------------------------------- transferFunds
\* the reads and checks of a transfer with the recipient looked up before
\* the funds check
transferFetchRecipientFirst(p) ==
  /\ pc[p] = "fetch" /\ call[p].op = "TRANSFER"
  /\ UNCHANGED <<users, wallets, transactions, started>>
  /\ LET t == BeginTrx
         c == call[p]
     IN \E senderWallet \in fetchOne(t.wallets, [user_id |-> c.userId], NullRow),
           recipient \in fetchOne(users, [email |-> toLowerCase(c.recipientEmail)], NullRow) :
          IF senderWallet.id = NULL
            THEN Throw(p, "WalletNotFoundError")
          ELSE IF recipient.id = NULL
            THEN Throw(p, "RecipientNotFoundError")
          ELSE IF insufficientFunds(senderWallet.balance, c.amount)
            THEN Throw(p, "InsufficientFundsError")
          ELSE IF isSelfTransfer(recipient, c.userId)
            THEN Throw(p, "SelfTransferError")
          ELSE \E recipientWallet \in
                    fetchOne(t.wallets, [user_id |-> recipient.id], NullRow) :
                 IF recipientWallet.id = NULL
                   THEN Throw(p, "WalletNotFoundError")
                   ELSE /\ trx' = [trx EXCEPT ![p] = t]
                        /\ local' = [local EXCEPT ![p] =
                             [NoLocal EXCEPT !.wallet = senderWallet,
                                             !.recipient = recipient,
                                             !.recipientWallet = recipientWallet,
                                             !.reference = referenceOf(c)]]
                        /\ pc' = [pc EXCEPT ![p] = "update"]
                        /\ UNCHANGED <<call, response>>

\* the reads and checks of transferFunds before its first write
transferFetch(p) ==
  /\ pc[p] = "fetch" /\ call[p].op = "TRANSFER"
  /\ UNCHANGED <<users, wallets, transactions, started>>
  /\ LET t == BeginTrx
         c == call[p]
     IN \E senderWallet \in fetchOne(t.wallets, [user_id |-> c.userId], NullRow),
           recipient \in fetchOne(users, [email |-> toLowerCase(c.recipientEmail)], NullRow) :
          IF senderWallet.id = NULL
            THEN Throw(p, "WalletNotFoundError")
          ELSE IF insufficientFunds(senderWallet.balance, c.amount)
            THEN Throw(p, "InsufficientFundsError")
          ELSE IF recipient.id = NULL
            THEN Throw(p, "RecipientNotFoundError")
          ELSE IF isSelfTransfer(recipient, c.userId)
            THEN Throw(p, "SelfTransferError")
          ELSE \E recipientWallet \in
                    fetchOne(t.wallets, [user_id |-> recipient.id], NullRow) :
                 IF recipientWallet.id = NULL
                   THEN Throw(p, "WalletNotFoundError")
                   ELSE /\ trx' = [trx EXCEPT ![p] = t]
                        /\ local' = [local EXCEPT ![p] =
                             [NoLocal EXCEPT !.wallet = senderWallet,
                                             !.recipient = recipient,
                                             !.recipientWallet = recipientWallet,
                                             !.reference = referenceOf(c)]]
                        /\ pc' = [pc EXCEPT ![p] = "update"]
                        /\ UNCHANGED <<call, response>>

transferUpdateSender(p) ==
  /\ pc[p] = "update" /\ call[p].op = "TRANSFER"
  /\ CanLock(p, call[p].userId)
  /\ LET senderNewBalance == local[p].wallet.balance - call[p].amount
         w == WalletUpdate(p, call[p].userId, senderNewBalance)
     IN \E updatedSenderWallet \in w.updated :
          /\ trx' = [trx EXCEPT ![p] = w.trx]
          /\ wallets' = w.committed
          /\ local' = [local EXCEPT ![p].newBalance = senderNewBalance,
                                    ![p].updatedWallet = updatedSenderWallet]
  /\ pc' = [pc EXCEPT ![p] = "updateRecipient"]
  /\ UNCHANGED <<users, transactions, call, response, started>>

transferUpdateRecipient(p) ==
  /\ pc[p] = "updateRecipient" /\ call[p].op = "TRANSFER"
  /\ CanLock(p, local[p].recipient.id)
  /\ LET recipientNewBalance ==
           local[p].recipientWallet.balance + call[p].amount
         w == WalletUpdate(p, local[p].recipient.id, recipientNewBalance)
     IN /\ trx' = [trx EXCEPT ![p] = w.trx]
        /\ wallets' = w.committed
        /\ local' = [local EXCEPT ![p].recipientNewBalance = recipientNewBalance]
  /\ pc' = [pc EXCEPT ![p] = "record"]
  /\ UNCHANGED <<users, transactions, call, response, started>>

\* the transaction record on the sender's wallet
senderPayload(c, l) ==
  [walletId |-> l.wallet.id,
   userId |-> c.userId,
   type |-> "TRANSFER",
   amount |-> c.amount,
   reference |-> l.reference,
   senderId |-> c.userId,
   receiverId |-> l.recipient.id,
   status |-> "PENDING",
   balanceBefore |-> l.wallet.balance,
   balanceAfter |-> l.newBalance]

\* the recipient's record written with the sender's wallet and balances
recipientPayloadOnSender(c, l) ==
  [walletId |-> l.wallet.id,
   userId |-> l.recipient.id,
   type |-> "TRANSFER",
   amount |-> c.amount,
   reference |-> l.reference,
   senderId |-> c.userId,
   receiverId |-> l.recipient.id,
   status |-> "PENDING",
   balanceBefore |-> l.wallet.balance,
   balanceAfter |-> l.newBalance]

\* the transaction record on the recipient's wallet
recipientPayload(c, l) ==
  [walletId |-> l.recipientWallet.id,
   userId |-> l.recipient.id,
   type |-> "TRANSFER",
   amount |-> c.amount,
   reference |-> l.reference,
   senderId |-> c.userId,
   receiverId |-> l.recipient.id,
   status |-> "PENDING",
   balanceBefore |-> l.recipientWallet.balance,
   balanceAfter |-> l.recipientNewBalance]

\* both createTransaction calls, both markTransactionSuccess calls and the
\* return of the callback, on which knex commits
transferRecord(p) ==
  /\ pc[p] = "record" /\ call[p].op = "TRANSFER"
  /\ LET first == createTransaction(trx[p].transactions,
                                    senderPayload(call[p], local[p]))
         second == createTransaction(first.table,
                                     recipientPayload(call[p], local[p]))
     IN \E senderTransaction \in first.found,
           recipientTransaction \in second.found :
          LET marked == markTransactionSuccess(
                          markTransactionSuccess(second.table,
                                                 senderTransaction.id, {}),
                          recipientTransaction.id, {})
              t == [trx[p] EXCEPT
                      !.transactions = marked,
                      !.ins = NewIds(trx[p].transactions, second.table),
                      !.upd = {[id |-> senderTransaction.id,
                                data |-> markData({})],
                               [id |-> recipientTransaction.id,
                                data |-> markData({})]}]
          IN /\ wallets' = commitWallets(t)
             /\ transactions' = commitTransactions(t)
             /\ Ends(p, call[p], "ok", senderTransaction)
  /\ UNCHANGED <<users, started>>

InTrx == {"fetch", "update", "updateRecipient", "record"}

\* a query of the store fails (connection lost, lock wait timeout, deadlock
\* victim): the callback throws, knex rolls back, the handler wraps the
\* error in AppError
StoreFail(p) ==
  /\ pc[p] \in InTrx
  /\ Throw(p, DriverError)
  /\ UNCHANGED <<users, wallets, transactions, started>>

Next ==
  \E p \in Procs :
    \/ fundWallet(p) \/ fundFetch(p) \/ fundUpdate(p) \/ fundRecord(p)
    \/ withdrawFunds(p) \/ withdrawFetch(p) \/ withdrawUpdate(p)
    \/ withdrawRecord(p)
    \/ transferFunds(p) \/ transferFetch(p) \/ transferUpdateSender(p)
    \/ transferUpdateRecipient(p) \/ transferRecord(p)
    \/ StoreFail(p)

Spec == Init /\ [][Next]_vars

\* the state after fundWallet("u1", {amount: MaxAmount}) and then
\* fundWallet("u2", {amount: MaxAmount}) have returned, with no call running
FundedWallets ==
  { [id |-> "w1", user_id |-> "u1", balance |-> MaxAmount],
    [id |-> "w2", user_id |-> "u2", balance |-> MaxAmount] }

FundedRow(n, walletId, userId) ==
  [id |-> n, walletId |-> walletId, userId |-> userId, type |-> "FUND",
   amount |-> MaxAmount, reference |-> [src |-> "gen", n |-> n],
   senderId |-> NULL, receiverId |-> NULL, status |-> "SUCCESS",
   balanceBefore |-> 0, balanceAfter |-> MaxAmount]

FundedTransactions == {FundedRow(1, "w1", "u1"), FundedRow(2, "w2", "u2")}

InitFunded ==
  /\ users = InitialUsers
  /\ wallets = FundedWallets
  /\ transactions = FundedTransactions
  /\ pc = [p \in Procs |-> "idle"]
  /\ call = [p \in Procs |-> NoCall]
  /\ trx = [p \in Procs |-> NoTrx]
  /\ local = [p \in Procs |-> NoLocal]
  /\ response = NoResponse
  /\ started = 0

\* the handlers started on two funded wallets
SpecFunded == InitFunded /\ [][Next]_vars

\* the next query of a running call is answered: its reads and inserts
\* always, its UPDATE once no other transaction holds the row
CanStep(p) ==
  \/ pc[p] \in {"fetch", "record"}
  \/ pc[p] = "update" /\ CanLock(p, call[p].userId)
  \/ pc[p] = "updateRecipient" /\ CanLock(p, local[p].recipient.id)

\* ------------------------------------------------ WalletService: reads
\* ids a caller of the read methods passes
ReaderIds == RegisteredIds \cup {"u0"}

\* fetchOne(WALLETS_TABLE, { user_id: userId }) on db: the row, null, or a
\* failure of the query
Fetched(userId) ==
  fetchOne(wallets, [user_id |-> userId], NullRow) \cup {[id |-> DriverError]}

\* getWalletByUserId(userId): the wallet or null
getWalletByUserId(p) ==
  /\ pc[p] = "idle"
  /\ started < MaxOps
  /\ started' = started + 1
  /\ UNCHANGED <<users, wallets, transactions>>
  /\ \E userId \in ReaderIds : \E wallet \in Fetched(userId) :
       Ends(p, [NoCall EXCEPT !.op = "GET_WALLET", !.userId = userId],
            IF wallet.id = DriverError THEN Caught(DriverError) ELSE "ok",
            NoTxn)

\* getWalletBalance(userId): getWalletByUserId, then
\* if (!wallet) throw new WalletNotFoundError()
getWalletBalance(p) ==
  /\ pc[p] = "idle"
  /\ started < MaxOps
  /\ started' = started + 1
  /\ UNCHANGED <<users, wallets, transactions>>
  /\ \E userId \in ReaderIds : \E wallet \in Fetched(userId) :
       Ends(p, [NoCall EXCEPT !.op = "GET_BALANCE", !.userId = userId],
            IF wallet.id = DriverError
              THEN Caught(Caught(DriverError))
              ELSE IF wallet.id = NULL
                THEN Caught("WalletNotFoundError")
                ELSE "ok",
            NoTxn)

NextReads ==
  \/ Next
  \/ \E p \in Procs : getWalletByUserId(p) \/ getWalletBalance(p)

\* the wallet handlers and the read methods running concurrently
SpecReads == Init /\ [][NextReads]_vars

\* ------------------------------------------------------------ UserService
EmailAUpper == <<"A", "@", "X">>
EmailD == <<"d", "@", "x">>

\* what the identity-verification collaborator (the Karma lookup of the
\* README) would answer for an e-mail: no record, a record with an amount
\* in contention and a reason, or no answer (transport error, timeout, 401)
KarmaAnswers == {"eligible", "blacklisted", "unreachable"}

\* CreateUserDTO: e-mail, phone and BVN, each either held by u1 or free; the
\* phone may be the empty string, which the validation schema allows.  With
\* each call goes the answer the collaborator would give for its e-mail.
RegisterPayloads ==
  {[op |-> "REGISTER", userId |-> NULL, amount |-> 0,
    reference |-> NoReference, recipientEmail |-> <<>>,
    email |-> e, phone |-> ph, bvn |-> b, karma |-> k] :
      e \in {EmailAUpper, EmailCUpper}, ph \in {"", "p1", "p3"},
      b \in {"b1", "b3"}, k \in KarmaAnswers}
  \cup {[op |-> "REGISTER", userId |-> NULL, amount |-> 0,
         reference |-> NoReference, recipientEmail |-> <<>>,
         email |-> EmailD, phone |-> "", bvn |-> "b4", karma |-> k] :
           k \in KarmaAnswers}

\* isUnique(tableName, uniqueField): no row has the value
isUnique(table, uniqueField) == Where(table, uniqueField) = {}

\* the id a new users row gets, UUID(): one no row and no running
\* registration has; the wallet created with it gets the id of the same rank
UserIdPool == <<"u3", "u4", "u5">>
WalletIdPool == <<"w3", "w4", "w5">>

PendingUsers(p) ==
  {local[q].createdUser : q \in {x \in Procs \ {p} : pc[x] = "insertWallet"}}

FreshRank(p) ==
  CHOOSE i \in 1..Len(UserIdPool) :
    /\ UserIdPool[i] \notin Ids(users \cup PendingUsers(p))
    /\ \A j \in 1..(i - 1) : UserIdPool[j] \in Ids(users \cup PendingUsers(p))

\* the unique indexes of table users: email, phone, bvn
DuplicatesKey(row, rows) ==
  \E r \in rows :
    r.email = row.email \/ r.phone = row.phone \/ r.bvn = row.bvn

\* registerUser(payload): the call starts with the e-mail check
registerUser(p) ==
  /\ pc[p] = "idle"
  /\ started < MaxOps
  /\ started' = started + 1
  /\ UNCHANGED <<users, wallets, transactions>>
  /\ \E c \in RegisterPayloads :
       IF ~isUnique(users, [email |-> toLowerCase(c.email)])
         THEN Ends(p, c, Caught("ConflictError"), NoTxn)
         ELSE /\ pc' = [pc EXCEPT ![p] = "checkPhone"]
              /\ call' = [call EXCEPT ![p] = c]
              /\ UNCHANGED <<trx, local, response>>

\* if (payload.phone) { isUnique(USERS_TABLE, { phone }) ... }
registerCheckPhone(p) ==
  /\ pc[p] = "checkPhone"
  /\ UNCHANGED <<users, wallets, transactions, started>>
  /\ IF call[p].phone # "" /\ ~isUnique(users, [phone |-> call[p].phone])
       THEN Throw(p, "ConflictError")
       ELSE /\ pc' = [pc EXCEPT ![p] = "checkBvn"]
            /\ UNCHANGED <<call, trx, local, response>>

\* a registration refused when the collaborator gives no answer
karmaBlocksUnreachable(karma) == karma = "unreachable"

\* whether registerUser refuses a call for the collaborator's answer:
\* between the BVN check and createUserWithWallet it consults nothing
karmaBlocks(karma) == FALSE

\* the BVN check, the last one before createUserWithWallet
registerCheckBvn(p) ==
  /\ pc[p] = "checkBvn"
  /\ UNCHANGED <<users, wallets, transactions, started>>
  /\ IF ~isUnique(users, [bvn |-> call[p].bvn])
       THEN Throw(p, "ConflictError")
       ELSE IF karmaBlocks(call[p].karma)
         THEN Throw(p, "KarmaVerificationError")
         ELSE /\ pc' = [pc EXCEPT ![p] = "insertUser"]
              /\ UNCHANGED <<call, trx, local, response>>

\* createUserWithWallet: create(USERS_TABLE, insertPayload, trx).  The
\* insert fails on a duplicate key among the committed rows, waits while a
\* running registration has inserted a row with the same key, and any
\* error is rethrown as AppError
createUser(p) ==
  /\ pc[p] = "insertUser"
  /\ UNCHANGED <<users, wallets, transactions, started>>
  /\ LET insertPayload ==
           [id |-> UserIdPool[FreshRank(p)],
            email |-> toLowerCase(call[p].email),
            phone |-> call[p].phone,
            bvn |-> call[p].bvn]
     IN IF DuplicatesKey(insertPayload, users)
          THEN Throw(p, DriverError)
          ELSE /\ ~DuplicatesKey(insertPayload, PendingUsers(p))
               /\ local' = [local EXCEPT ![p].createdUser = insertPayload]
               /\ pc' = [pc EXCEPT ![p] = "insertWallet"]
               /\ UNCHANGED <<call, trx, response>>

\* the wallet payload naming the first registered user as owner
walletPayloadOfFirstUser(user) == [user_id |-> "u1", balance |-> 0]

\* walletPayload = { user_id: user.id, balance: initialBalance }, with the
\* initialBalance = 0 the controller leaves at its default
walletPayload(user) == [user_id |-> user.id, balance |-> 0]

\* create(WALLETS_TABLE, walletPayload, trx) and the return of the callback,
\* on which knex commits both rows
createWallet(p) ==
  /\ pc[p] = "insertWallet"
  /\ LET user == local[p].createdUser
         rank == CHOOSE i \in 1..Len(UserIdPool) : UserIdPool[i] = user.id
     IN /\ users' = users \cup {user}
        /\ wallets' = wallets \cup
             {[id |-> WalletIdPool[rank],
               user_id |-> walletPayload(user).user_id,
               balance |-> walletPayload(user).balance]}
  /\ Ends(p, call[p], "ok", NoTxn)
  /\ UNCHANGED <<transactions, started>>

InRegister == {"checkPhone", "checkBvn", "insertUser", "insertWallet"}

\* a query of registerUser fails in the store: an open transaction is
\* rolled back and the error is rethrown as AppError
RegisterFail(p) ==
  /\ pc[p] \in InRegister
  /\ Throw(p, DriverError)
  /\ UNCHANGED <<users, wallets, transactions, started>>

NextUsers ==
  \/ Next
  \/ \E p \in Procs :
       \/ registerUser(p) \/ registerCheckPhone(p) \/ registerCheckBvn(p)
       \/ createUser(p) \/ createWallet(p)
       \/ RegisterFail(p)

\* the wallet handlers and registerUser running concurrently
SpecUsers == Init /\ [][NextUsers]_vars

\* ------------------------------------- TransactionService called directly
MaxRows == 2       \* rows the recorder is given

\* payloads of createTransaction: a PENDING fund record on either wallet
RecorderPayloads ==
  {[walletId |-> w.id, userId |-> w.user_id, type |-> "FUND",
    amount |-> MaxAmount, reference |-> ref, status |-> "PENDING",
    balanceBefore |-> 0, balanceAfter |-> MaxAmount] :
      w \in wallets, ref \in {generateTransactionReference, CallerReference}}

\* ids a caller may pass: those of the rows, and one no row has
RecorderIds == Ids(transactions) \cup {FreshIdAfter(transactions)}

RecorderCreate ==
  /\ Cardinality(transactions) < MaxRows
  /\ \E payload \in RecorderPayloads :
       transactions' = createTransaction(transactions, payload).table
  /\ UNCHANGED <<users, wallets, pc, call, trx, local, response, started>>

\* markTransactionSuccess(transactionId, balanceAfter) called on the pool:
\* the update, then the row read back by id and returned to the caller;
\* the response tells whether a balanceAfter was passed, and which
MarkSuccessCall ==
  /\ \E id \in RecorderIds, balanceAfter \in {{}, {0}} :
       /\ transactions' = markTransactionSuccess(transactions, id, balanceAfter)
       /\ \E transaction \in fetchOne(transactions', [id |-> id], NoTxn) :
            response' =
              [NoResponse EXCEPT
                 !.kind = "ok",
                 !.at = "idle",
                 !.op = IF balanceAfter = {}
                          THEN "MARK_SUCCESS"
                          ELSE "MARK_SUCCESS_WITH_BALANCE",
                 !.amount = IF balanceAfter = {}
                              THEN 0
                              ELSE CHOOSE v \in balanceAfter : TRUE,
                 !.transaction = Returned(transaction)]
  /\ UNCHANGED <<users, wallets, pc, call, trx, local>>

RecorderMarkSuccess == MarkSuccessCall /\ UNCHANGED started

\* the same call counted among the calls of a behaviour
CountedMarkSuccess ==
  /\ started < MaxOps
  /\ started' = started + 1
  /\ MarkSuccessCall

RecorderMarkFailed ==
  /\ \E id \in RecorderIds :
       transactions' = markTransactionFailed(transactions, id)
  /\ UNCHANGED <<users, wallets, pc, call, trx, local, response, started>>

RecorderMarkCancelled ==
  /\ \E id \in RecorderIds :
       transactions' = markTransactionCancelled(transactions, id)
  /\ UNCHANGED <<users, wallets, pc, call, trx, local, response, started>>

NextRecorder ==
  \/ RecorderCreate
  \/ RecorderMarkSuccess
  \/ RecorderMarkFailed
  \/ RecorderMarkCancelled

\* the public methods of TransactionService called one after another on the
\* transactions table
SpecRecorder == Init /\ [][NextRecorder]_vars

NextMarks == Next \/ CountedMarkSuccess

\* the wallet handlers running while markTransactionSuccess is also called
\* from outside them, with and without a balanceAfter
SpecMarks == Init /\ [][NextMarks]_vars

\* ====================================================== properties ======
\* +amount for a fund and the credit leg of a transfer, -amount for a
\* withdrawal and the debit leg
SignedAmount(r) ==
  CASE r.type = "FUND" -> r.amount
    [] r.type = "WITHDRAW" -> 0 - r.amount
    [] r.type = "TRANSFER" ->
         IF r.userId = r.senderId THEN 0 - r.amount ELSE r.amount

RECURSIVE SumSigned(_)
SumSigned(rows) ==
  IF rows = {}
    THEN 0
    ELSE LET r == CHOOSE x \in rows : TRUE
         IN SignedAmount(r) + SumSigned(rows \ {r})

RowsOn(w) == {r \in transactions : r.walletId = w.id}

\* the step in which a call of handler p that got past its entry ends
EndsCall(p) == pc[p] # "idle" /\ pc'[p] = "idle"

\* the step in which a call is rejected at its entry
EntryRejected == started' # started /\ pc' = pc

\* the step in which handler p returns successfully (its commit)
Commits(p) == EndsCall(p) /\ response'.kind = "ok"

\* the step in which handler p throws
Fails(p) == EndsCall(p) /\ response'.kind # "ok"

\* the step in which handler p throws an error of its own (not a failure
\* of the store)
Rejects(p) == Fails(p) /\ response'.kind # "AppError"

WalletOf(userId) == CHOOSE w \in wallets : w.user_id = userId
HasWallet(userId) == \E w \in wallets : w.user_id = userId

\* the registered user an e-mail resolves to, if any
Resolves(email) == Where(users, [email |-> toLowerCase(email)])

\* C1: every wallet's balance equals the sum of the signed amounts of the
\* SUCCESS transaction rows on that wallet.
C1_BalanceEqualsSuccessSum ==
  \A w \in wallets :
    w.balance = SumSigned({r \in RowsOn(w) : r.status = "SUCCESS"})

\* C2: no lost updates: a wallet on which only Fund calls committed has the
\* sum of their amounts as its balance.
C2_NoLostUpdate ==
  \A w \in wallets :
    (\A r \in RowsOn(w) : r.type = "FUND")
      => w.balance = SumSigned(RowsOn(w))

\* C3: every committed wallet balance is >= 0.
C3_BalanceNonNegative == \A w \in wallets : w.balance >= 0

\* C3 witness: two withdrawals that read the same balance both committed
C3_Witness ==
  \E r1, r2 \in transactions :
    /\ r1.id # r2.id
    /\ r1.type = "WITHDRAW" /\ r2.type = "WITHDRAW"
    /\ r1.walletId = r2.walletId
    /\ r1.balanceBefore = r2.balanceBefore
    /\ r1.balanceAfter = 0

\* C4: a call that returns an error leaves the committed wallets and
\* transaction rows as they are at every one of its steps: the committed
\* tables change only in the step in which a call returns successfully, and
\* never in the step in which a call throws.
C4_ErrorChangesNothing ==
  [][ /\ (wallets' # wallets \/ transactions' # transactions)
           => \E p \in Procs : Commits(p)
      /\ \A p \in Procs :
           Fails(p) => (wallets' = wallets /\ transactions' = transactions)
      /\ EntryRejected => (wallets' = wallets /\ transactions' = transactions)
    ]_vars

\* C4 witness: a call failed after its balance write
C4_Witness == response.kind = "AppError" /\ response.at = "record"

\* C5: a committed Transfer adds exactly two rows of type TRANSFER, one on
\* the sender's wallet owned by the sender and one on the recipient's wallet
\* owned by the recipient, with the same reference, the amount, senderId =
\* sender and receiverId = recipient.
C5_TransferAddsTwoLegs ==
  [][ \A p \in Procs :
        (call[p].op = "TRANSFER" /\ Commits(p)) =>
          LET added == {r \in transactions' : r.id \notin Ids(transactions)}
              sender == call[p].userId
          IN \E recipient \in Resolves(call[p].recipientEmail) :
             \E d, c \in added :
               /\ added = {d, c} /\ d.id # c.id
               /\ d.walletId = WalletOf(sender).id /\ d.userId = sender
               /\ c.walletId = WalletOf(recipient.id).id
               /\ c.userId = recipient.id
               /\ d.reference = c.reference
               /\ \A r \in added :
                    /\ r.type = "TRANSFER"
                    /\ r.amount = call[p].amount
                    /\ r.senderId = sender
                    /\ r.receiverId = recipient.id
    ]_vars

\* C5 witness: a transfer has committed
C5_Witness == response.op = "TRANSFER" /\ response.kind = "ok"

\* C6: every committed transaction row has status SUCCESS.
C6_AllRowsSuccess == \A r \in transactions : r.status = "SUCCESS"

\* C7: the commit of a Transfer of amount a lowers the sender's balance by
\* exactly a and raises the recipient's by exactly a.
C7_TransferMovesExactly ==
  [][ \A p \in Procs :
        (call[p].op = "TRANSFER" /\ Commits(p)) =>
          \E recipient \in Resolves(call[p].recipientEmail) :
            LET s == WalletOf(call[p].userId)
                r == WalletOf(recipient.id)
            IN /\ \E w \in wallets' :
                    w.id = s.id /\ w.balance = s.balance - call[p].amount
               /\ \E w \in wallets' :
                    w.id = r.id /\ w.balance = r.balance + call[p].amount
    ]_vars

\* a transfer whose recipient e-mail resolves to the caller
IsSelfCall(c) ==
  /\ c.op = "TRANSFER"
  /\ \E u \in Resolves(c.recipientEmail) : u.id = c.userId

\* C8 as stated: a Transfer to self with amount > 0 never gets past its
\* checks and is rejected with SelfTransferError whatever the sender's
\* balance.
C8_SelfTransferAlwaysSelfError ==
  [][ \A p \in Procs :
        (pc[p] = "fetch" /\ IsSelfCall(call[p])) =>
          /\ pc'[p] \in {"fetch", "idle"}
          /\ Rejects(p) => response'.kind = "SelfTransferError"
    ]_vars

\* C8 amended: a Transfer to self with amount > 0 never gets past its
\* checks and changes no committed state; it is rejected with
\* SelfTransferError when the balance it reads covers the amount, and with
\* InsufficientFundsError when the balance it reads is lower than the amount.
C8_SelfTransferRejected ==
  [][ \A p \in Procs :
        (pc[p] = "fetch" /\ IsSelfCall(call[p])) =>
          /\ pc'[p] \in {"fetch", "idle"}
          /\ Fails(p) => (wallets' = wallets /\ transactions' = transactions)
          /\ Rejects(p) =>
               response'.kind =
                 IF WalletOf(call[p].userId).balance < call[p].amount
                   THEN "InsufficientFundsError"
                   ELSE "SelfTransferError"
    ]_vars

\* C8 witness: a transfer was rejected as a self-transfer
C8_Witness ==
  /\ response.op = "TRANSFER" /\ response.kind = "SelfTransferError"
  /\ \E w \in wallets : w.balance >= response.amount

\* C9: a call with amount <= 0 never is inside a transaction, and it has
\* failed with InvalidAmountError at its entry, before db.transaction.
C9_InvalidAmountRejected ==
  /\ \A p \in Procs : pc[p] # "idle" => call[p].amount > 0
  /\ (response.op # "none" /\ response.amount <= 0)
       => (response.kind = "InvalidAmountError" /\ response.at = "idle")
  /\ response.kind = "InvalidAmountError" => response.amount <= 0

\* C9 witness: a transfer of amount 0 was rejected
C9_Witness ==
  /\ response.op = "TRANSFER" /\ response.amount <= 0
  /\ response.kind = "InvalidAmountError"

\* C10: a Withdraw or Transfer on an existing wallet whose amount exceeds
\* the balance it reads fails with InsufficientFundsError and changes no
\* committed state; with amount <= balance it is not rejected for
\* insufficient funds (a failure of the store apart).
C10_InsufficientFunds ==
  [][ \A p \in Procs :
        ( /\ pc[p] = "fetch" /\ pc'[p] # "fetch"
          /\ call[p].op \in {"WITHDRAW", "TRANSFER"}
          /\ HasWallet(call[p].userId)
          /\ ~(Fails(p) /\ response'.kind = "AppError") ) =>
          IF call[p].amount > WalletOf(call[p].userId).balance
            THEN /\ Fails(p) /\ response'.kind = "InsufficientFundsError"
                 /\ wallets' = wallets /\ transactions' = transactions
            ELSE ~(Fails(p) /\ response'.kind = "InsufficientFundsError")
    ]_vars

\* C10 witness: a call was rejected for insufficient funds and a withdrawal
\* of a whole balance committed
C10_Witness ==
  /\ response.op \in {"WITHDRAW", "TRANSFER"}
  /\ response.kind = "InsufficientFundsError"
  /\ \E r \in transactions :
       r.type = "WITHDRAW" /\ r.amount = r.balanceBefore /\ r.balanceAfter = 0

\* the wallet rows a transfer touches
TransferWallets(p) ==
  {local[p].wallet.id, local[p].recipientWallet.id}

\* ascending order of the wallet ids
WalletIdOrder == <<"w1", "w2", "w3", "w4", "w5">>
IdRank(id) == CHOOSE i \in 1..Len(WalletIdOrder) : WalletIdOrder[i] = id

\* the wallet rows whose lock handler p needs for its next UPDATE
WaitsFor(p) ==
  CASE pc[p] = "update" -> Ids(Where(wallets, [user_id |-> call[p].userId]))
    [] pc[p] = "updateRecipient" ->
         Ids(Where(wallets, [user_id |-> local[p].recipient.id]))
    [] OTHER -> {}

\* p waits for a row that q has locked
BlockedBy(p, q) == WaitsFor(p) \cap trx[q].locked # {}

\* a transfer that has written a wallet row holds the locks of both rows
LocksBothBeforeMutating ==
  \A p \in Procs :
    (call[p].op = "TRANSFER" /\ trx[p].locked # {})
      => TransferWallets(p) \subseteq trx[p].locked

\* a transfer that holds one of its two locks holds the one of the lower
\* wallet id
LocksAscending ==
  \A p \in Procs :
    (call[p].op = "TRANSFER" /\ trx[p].locked # {})
      => \E id \in trx[p].locked :
           \A other \in TransferWallets(p) : IdRank(id) <= IdRank(other)

\* no two handlers each hold a row the other waits for
NoCircularWait ==
  \A p, q \in Procs : p # q => ~(BlockedBy(p, q) /\ BlockedBy(q, p))

\* C11: every Transfer locks both wallet rows before it writes either, in
\* ascending order of wallet id whatever its direction, so that no state is
\* reachable in which two transfers each hold one row and wait for the other.
C11_OrderedLocksNoDeadlock ==
  /\ LocksBothBeforeMutating
  /\ LocksAscending
  /\ NoCircularWait

TerminalStatuses == {"SUCCESS", "FAILED", "CANCELLED"}

\* C12: a transaction row whose status is SUCCESS, FAILED or CANCELLED keeps
\* that status in every later step, whichever of markTransactionSuccess,
\* markTransactionFailed and markTransactionCancelled is called on it.
C12_TerminalStatusKept ==
  [][ \A r \in transactions :
        r.status \in TerminalStatuses =>
          \A n \in transactions' : n.id = r.id => n.status = r.status
    ]_vars

\* C13: the transaction returned by a Fund or a Withdraw that commits has
\* status SUCCESS, balanceBefore = the balance the call read and
\* balanceAfter = the balance it wrote.
C13_ReturnsSuccessRow ==
  [][ \A p \in Procs :
        (call[p].op \in {"FUND", "WITHDRAW"} /\ Commits(p)) =>
          /\ response'.transaction.status = "SUCCESS"
          /\ response'.transaction.balanceBefore = local[p].wallet.balance
          /\ response'.transaction.balanceAfter = local[p].newBalance
    ]_vars

\* the committed FUND rows that carry the reference of call c
FundRowsWith(rows, c) ==
  {r \in rows : r.type = "FUND" /\ r.reference = c.reference}

\* C14: when a Fund with an explicit reference commits although a committed
\* FUND row already carries that reference, it adds one row of its own,
\* every row with that reference is SUCCESS afterwards and the balance is
\* the one the call read raised by its amount; the only other outcome of
\* such a call is a failure that changes nothing.
C14_ReferenceReuse ==
  [][ \A p \in Procs :
        ( /\ call[p].op = "FUND" /\ call[p].reference.src = "caller"
          /\ FundRowsWith(transactions, call[p]) # {}
          /\ EndsCall(p) ) =>
          IF Commits(p)
            THEN /\ Cardinality(NewIds(transactions, transactions')) = 1
                 /\ \A r \in FundRowsWith(transactions', call[p]) :
                      r.status = "SUCCESS"
                 /\ \E w \in wallets' :
                      /\ w.user_id = call[p].userId
                      /\ w.balance = local[p].wallet.balance + call[p].amount
            ELSE wallets' = wallets /\ transactions' = transactions
    ]_vars

\* the rows a step adds to the committed transactions
AddedRows == {r \in transactions' : r.id \notin Ids(transactions)}

\* C15 as stated: the rows of a call that was given a reference, whatever
\* string it is, carry exactly that reference; the rows of a call given none
\* carry a generated one.
C15_SuppliedReferenceKept ==
  [][ \A p \in Procs :
        Commits(p) =>
          \A r \in AddedRows :
            IF call[p].reference.src = "caller"
              THEN r.reference = call[p].reference
              ELSE r.reference.src = "gen"
    ]_vars

\* C15 amended: the rows of a call that was given a non-empty reference
\* carry exactly that reference; the rows of a call given none, or the empty
\* string, carry a generated one.
C15_NonEmptyReferenceKept ==
  [][ \A p \in Procs :
        Commits(p) =>
          /\ AddedRows # {}
          /\ \A r \in AddedRows :
               IF call[p].reference.src = "caller"
                    /\ call[p].reference # EmptyReference
                 THEN r.reference = call[p].reference
                 ELSE r.reference.src = "gen"
    ]_vars

\* C15 witness: a committed row carries the caller's reference and another
\* a generated one
C15_Witness ==
  /\ \E r \in transactions : r.reference = CallerReference
  /\ \E r \in transactions : r.reference.src = "gen"

WalletsOf(u) == {w \in wallets : w.user_id = u.id}

\* C16: in every committed state every user owns exactly one wallet and
\* every wallet belongs to a user: registerUser commits the user and its
\* wallet together or neither, and no other operation adds a user or a
\* wallet.
C16_OneWalletPerUser ==
  /\ \A u \in users : Cardinality(WalletsOf(u)) = 1
  /\ \A w \in wallets : \E u \in users : u.id = w.user_id

\* C16 witness: a registration has committed a user with its wallet, and a
\* later one failed at its wallet insert, after its user insert
C16_Witness ==
  /\ \E u \in users : u.id \notin Ids(InitialUsers)
  /\ response.op = "REGISTER" /\ response.kind = "AppError"
  /\ response.at = "insertWallet"

\* a committed user holds the e-mail of registration call c
EmailTaken(c) == ~isUnique(users, [email |-> toLowerCase(c.email)])

\* C17: of the registrations that run concurrently with one e-mail at most
\* one commits a user, and one that reaches its insert when a committed
\* user holds its e-mail fails with ConflictError, not with a generic
\* AppError.
C17_ConcurrentSameEmail ==
  [][ /\ \A u, v \in users' : u.email = v.email => u.id = v.id
      /\ \A p \in Procs :
           ( /\ call[p].op = "REGISTER" /\ pc[p] = "insertUser"
             /\ EmailTaken(call[p])
             /\ EndsCall(p) ) => response'.kind = "ConflictError"
    ]_vars

\* C18: registerUser lets a call pass its e-mail, phone and BVN checks, made
\* in that order, only when no user holds the value; a call it rejects
\* fails with ConflictError, and a call that fails creates neither a user
\* nor a wallet.
C18_RegisterConflicts ==
  [][ /\ (EntryRejected /\ response'.op = "REGISTER") =>
           /\ response'.kind = "ConflictError"
           /\ users' = users /\ wallets' = wallets
      /\ \A p \in Procs :
           /\ (pc[p] = "idle" /\ pc'[p] = "checkPhone") =>
                ~EmailTaken(call'[p])
           /\ (pc[p] = "checkPhone" /\ pc'[p] = "checkBvn") =>
                isUnique(users, [phone |-> call[p].phone])
           /\ (pc[p] = "checkBvn" /\ pc'[p] = "insertUser") =>
                isUnique(users, [bvn |-> call[p].bvn])
           /\ (call[p].op = "REGISTER" /\ Fails(p)) =>
                /\ users' = users /\ wallets' = wallets
                /\ (pc[p] \in {"checkPhone", "checkBvn"}
                      /\ response'.kind # "AppError")
                     => response'.kind = "ConflictError"
    ]_vars

WalletOps == {"FUND", "WITHDRAW", "TRANSFER", "GET_WALLET", "GET_BALANCE"}

\* C19: what a caller of fundWallet, withdrawFunds, transferFunds,
\* getWalletBalance or getWalletByUserId gets is a result or an AppError,
\* never the driver's error: the errors of the amount check and of a missing
\* wallet arrive as themselves, and a failure of the store as the generic
\* AppError.
C19_OnlyAppErrors ==
  response.op \in WalletOps =>
    /\ response.kind \in {"ok"} \cup AppErrors
    /\ (response.at = "idle" /\ response.op \in {"FUND", "WITHDRAW", "TRANSFER"})
         => response.kind = "InvalidAmountError"
    /\ response.op = "GET_WALLET" => response.kind \in {"ok", "AppError"}
    /\ response.op = "GET_BALANCE" =>
         response.kind \in {"ok", "AppError", "WalletNotFoundError"}

\* C19 witness: a transfer's query failed in the store after its sender
\* update and the caller got the generic AppError
C19_Witness ==
  /\ response.op = "TRANSFER" /\ response.kind = "AppError"
  /\ response.at = "updateRecipient"

C21_ReturnsSenderLeg ==
  [][ \A p \in Procs :
        (call[p].op = "TRANSFER" /\ Commits(p)) =>
          /\ response'.transaction.id \in NewIds(transactions, transactions')
          /\ response'.transaction.walletId = local[p].wallet.id
          /\ response'.transaction.userId = call[p].userId
    ]_vars

\* the wallets whose committed balance a step changes
BalanceChanged ==
  {w \in wallets : \E n \in wallets' : n.id = w.id /\ n.balance # w.balance}

\* C22: a step that changes the committed balance of a wallet is the commit
\* of a Fund, a Withdraw or a Transfer, and the same commit adds a
\* transaction row on that wallet.
C22_BalanceChangeHasRow ==
  [][ \A w \in BalanceChanged :
        /\ \E p \in Procs :
             Commits(p) /\ call[p].op \in {"FUND", "WITHDRAW", "TRANSFER"}
        /\ \E r \in AddedRows : r.walletId = w.id
    ]_vars

\* C22 witness: a registration has added a wallet, which has no row and
\* balance 0, and a transfer has raised the balance of another wallet, which
\* has a TRANSFER row
C22_Witness ==
  /\ \E w \in wallets :
       w.user_id \notin RegisteredIds /\ w.balance = 0 /\ RowsOn(w) = {}
  /\ \E w \in wallets :
       /\ w.balance > 0
       /\ \E r \in RowsOn(w) : r.type = "TRANSFER" /\ r.receiverId = w.user_id

\* the user and the wallet the commit of registration call c adds
RegisteredBy(c) ==
  {u \in users' : /\ u.id \notin Ids(users)
                  /\ u.email = toLowerCase(c.email)
                  /\ \E w \in wallets' :
                       w.id \notin Ids(wallets) /\ w.user_id = u.id}

\* C23: a registration made while the identity-verification collaborator
\* cannot be reached is treated as eligible: it is never refused for the
\* collaborator, it goes on to createUserWithWallet once its e-mail, phone
\* and BVN passed the uniqueness checks, and its commit creates the user and
\* the user's wallet.
C23_FailOpen ==
  [][ \A p \in Procs :
        (call[p].op = "REGISTER" /\ call[p].karma = "unreachable") =>
          /\ Fails(p) => response'.kind \in {"ConflictError", "AppError"}
          /\ ( /\ pc[p] = "checkBvn" /\ pc'[p] # pc[p]
               /\ isUnique(users, [bvn |-> call[p].bvn])
               /\ ~(Fails(p) /\ response'.kind = "AppError") )
               => pc'[p] = "insertUser"
          /\ Commits(p) => RegisteredBy(call[p]) # {}
    ]_vars

\* C23 witness: a registration made while the collaborator was unreachable
\* has returned and its user has a wallet
C23_Witness ==
  /\ response.op = "REGISTER" /\ response.karma = "unreachable"
  /\ response.kind = "ok"
  /\ \E u \in users : u.id \notin Ids(InitialUsers) /\ HasWallet(u.id)

\* C24: a registration for whose e-mail the collaborator reports an amount
\* in contention or a reason creates neither a user nor a wallet, and fails
\* with KarmaVerificationError unless a uniqueness check or the store failed
\* it first.
C24_NotEligibleRejected ==
  [][ \A p \in Procs :
        ( /\ call[p].op = "REGISTER" /\ call[p].karma = "blacklisted"
          /\ EndsCall(p) ) =>
          /\ Fails(p)
          /\ users' = users /\ wallets' = wallets
          /\ response'.kind \in
               {"KarmaVerificationError", "ConflictError", "AppError"}
    ]_vars

\* one character with its case folded to upper case
UpperChar(c) ==
  CASE c = "a" -> "A"
    [] c = "b" -> "B"
    [] c = "c" -> "C"
    [] c = "d" -> "D"
    [] c = "x" -> "X"
    [] c = "z" -> "Z"
    [] OTHER -> c

\* two e-mails that differ at most in letter case
SameButCase(a, b) ==
  /\ Len(a) = Len(b)
  /\ \A i \in 1..Len(a) : UpperChar(a[i]) = UpperChar(b[i])

\* the users whose e-mail is the given one but for letter case
UsersNamed(email) == {u \in users : SameButCase(u.email, email)}

FirstFailure(c) ==
  IF c.amount <= 0 THEN "InvalidAmountError"
  ELSE IF ~HasWallet(c.userId) THEN "WalletNotFoundError"
  ELSE IF WalletOf(c.userId).balance < c.amount THEN "InsufficientFundsError"
  ELSE IF UsersNamed(c.recipientEmail) = {} THEN "RecipientNotFoundError"
  ELSE IF \E u \in UsersNamed(c.recipientEmail) : u.id = c.userId
    THEN "SelfTransferError"
  ELSE IF \E u \in UsersNamed(c.recipientEmail) : ~HasWallet(u.id)
    THEN "WalletNotFoundError"
  ELSE "none"

\* C26: a Transfer reports the first of its preconditions that fails, in
\* the order InvalidAmount (at entry, before the atomic unit), sender
\* WalletNotFound, InsufficientFunds, RecipientNotFound, SelfTransfer,
\* recipient WalletNotFound; it goes on to its writes only when none fails.
C26_FirstFailingPrecondition ==
  [][ /\ (EntryRejected /\ response'.op = "TRANSFER") =>
           /\ response'.amount <= 0
           /\ response'.kind = "InvalidAmountError"
      /\ \A p \in Procs :
           /\ (pc[p] = "idle" /\ pc'[p] = "fetch") => call'[p].amount > 0
           /\ ( /\ pc[p] = "fetch" /\ pc'[p] # "fetch"
                /\ call[p].op = "TRANSFER"
                /\ ~(Fails(p) /\ response'.kind = "AppError") ) =>
                IF FirstFailure(call[p]) = "none"
                  THEN pc'[p] = "update"
                  ELSE /\ Fails(p)
                       /\ response'.kind = FirstFailure(call[p])
    ]_vars

\* C26 witness: a transfer of more than the balance to an e-mail of no user
\* was refused for insufficient funds
C26_Witness ==
  /\ response.op = "TRANSFER" /\ response.amount > 0
  /\ response.recipientEmail = EmailNobody
  /\ response.kind = "InsufficientFundsError"

\* a step of markTransactionSuccess called from outside the handlers
MarkStep ==
  /\ pc' = pc /\ started' # started
  /\ response'.op \in {"MARK_SUCCESS", "MARK_SUCCESS_WITH_BALANCE"}

\* the rows a step leaves with the balances they had
BalancesKept(rows) ==
  \A r \in rows : \A n \in transactions' :
    n.id = r.id =>
      n.balanceBefore = r.balanceBefore /\ n.balanceAfter = r.balanceAfter

EarlierOn(w, r) == {x \in RowsOn(w) : x.id < r.id}

\* the latest of a non-empty set of rows
Latest(rows) == CHOOSE x \in rows : \A y \in rows : y.id <= x.id

\* C29: on every wallet the rows in commit order form an unbroken chain:
\* the first row's balanceBefore is the initial balance 0, every later
\* row's balanceBefore is the balanceAfter of the row before it, and the
\* last row's balanceAfter is the wallet's balance.
C29_UnbrokenChain ==
  \A w \in wallets :
    /\ \A r \in RowsOn(w) :
         r.balanceBefore =
           IF EarlierOn(w, r) = {}
             THEN 0
             ELSE Latest(EarlierOn(w, r)).balanceAfter
    /\ w.balance = IF RowsOn(w) = {} THEN 0 ELSE Latest(RowsOn(w)).balanceAfter

RECURSIVE SumBalances(_)
SumBalances(rows) ==
  IF rows = {}
    THEN 0
    ELSE LET w == CHOOSE x \in rows : TRUE
         IN w.balance + SumBalances(rows \ {w})

\* the rows of the committed Fund and Withdraw calls: each adds one row
FundAndWithdrawRows == {r \in transactions : r.type \in {"FUND", "WITHDRAW"}}

\* C30: in every committed state the balances of all wallets add up to the
\* amounts of the committed Fund calls less the amounts of the committed
\* Withdraw calls; transfers, in any interleaving, leave that total as it is.
C30_MoneyConserved == SumBalances(wallets) = SumSigned(FundAndWithdrawRows)

====
